---- MODULE Spec2Model ----
(***************************************************************************)
(* deno-keyv: a dot-path key-value facade over a SQL table with an         *)
(* in-memory cache (SqliteProvider.ts, PostgresProvider.ts).               *)
(*                                                                         *)
(* A key is modelled as the sequence of its dot-delimited segments:        *)
(* "a.b" is <<"a", "b">>.  JavaScript values are tagged records.  The      *)
(* JSON text of a value d is the tagged record Text(d): as a JavaScript    *)
(* value it is a (non-empty) string, different from d itself.              *)
(***************************************************************************)
EXTENDS Integers, Sequences, FiniteSets, TLC

(***************************************************************************)
(* Bounds of the model.                                                    *)
(***************************************************************************)
MaxOps == 3
MaxCalls == 2

Providers == {"sqlite", "postgres"}
Roots == {"a", "r"}
Segs == {"b", "c"}

(***************************************************************************)
(* JavaScript values.                                                      *)
(***************************************************************************)
Undefined == [k |-> "undefined"]
Null == [k |-> "null"]
Circular == [k |-> "circular"]
Str(s) == [k |-> "string", v |-> s]
Num(n) == [k |-> "number", v |-> n]
Bool(b) == [k |-> "boolean", v |-> b]
NoProps == [x \in {} |-> Undefined]
Obj(ps) == [k |-> "object", p |-> ps]
Arr(es) == [k |-> "array", v |-> es, p |-> NoProps]
Text(d) == [k |-> "text", v |-> d]

IsNullish(x) == x.k \in {"undefined", "null"}
IsObject(x) == x.k \in {"object", "array"}
IsArray(x) == x.k = "array"
Truthy(x) ==
  /\ ~IsNullish(x)
  /\ x # Str("")
  /\ x # Num(0)
  /\ x # Bool(FALSE)

HasOwn(x, seg) == IsObject(x) /\ seg \in DOMAIN x.p
Prop(x, seg) == IF HasOwn(x, seg) THEN x.p[seg] ELSE Undefined
WithProp(x, seg, val) ==
  [x EXCEPT !.p = [y \in (DOMAIN x.p) \cup {seg} |-> IF y = seg THEN val ELSE x.p[y]]]

(***************************************************************************)
(* JSON.stringify / JSON.parse.  stringify keeps the elements of an array  *)
(* and drops its named properties; parse gives back what was written.      *)
(***************************************************************************)
RECURSIVE Strip(_)
Strip(d) ==
  IF d.k = "array"
    THEN Arr([i \in 1..Len(d.v) |-> Strip(d.v[i])])
    ELSE IF d.k = "object"
      THEN Obj([y \in DOMAIN d.p |-> Strip(d.p[y])])
      ELSE d

stringify(d) == Text(Strip(d))
parse(t) == t.v

(***************************************************************************)
(* lodash _.set, _.get, _.has on a path given as its segments.             *)
(***************************************************************************)
RECURSIVE baseSet(_, _, _)
baseSet(object, path, value) ==
  IF ~IsObject(object)
    THEN object
    ELSE IF Len(path) = 1
      THEN WithProp(object, Head(path), value)
      ELSE LET objValue == Prop(object, Head(path))
               child == IF IsObject(objValue) THEN objValue ELSE Obj(NoProps)
           IN WithProp(object, Head(path), baseSet(child, Tail(path), value))

lodashSet(object, path, value) ==
  IF IsNullish(object) THEN object ELSE baseSet(object, path, value)

RECURSIVE baseGet(_, _)
baseGet(object, path) ==
  IF path = <<>>
    THEN object
    ELSE IF IsNullish(object)
      THEN Undefined
      ELSE baseGet(Prop(object, Head(path)), Tail(path))

lodashGet(object, path, defaultValue) ==
  LET result == IF IsNullish(object) THEN Undefined ELSE baseGet(object, path)
  IN IF result = Undefined THEN defaultValue ELSE result

RECURSIVE lodashHas(_, _)
lodashHas(object, path) ==
  IF path = <<>>
    THEN TRUE
    ELSE /\ ~IsNullish(object)
         /\ HasOwn(object, Head(path))
         /\ lodashHas(Prop(object, Head(path)), Tail(path))

(***************************************************************************)
(* Collection (a Map from root key to document).                           *)
(***************************************************************************)
collHas(coll, root) == root \in DOMAIN coll
collGet(coll, root) == IF root \in DOMAIN coll THEN coll[root] ELSE Undefined
collSet(coll, root, doc) ==
  [y \in (DOMAIN coll) \cup {root} |-> IF y = root THEN doc ELSE coll[y]]
collDelete(coll, root) == [y \in (DOMAIN coll) \ {root} |-> coll[y]]

(***************************************************************************)
(* The SQL table: a sequence of rows (key TEXT, value TEXT).               *)
(***************************************************************************)
Row(key, value) == [key |-> key, value |-> value]
selectByKey(table, key) == SelectSeq(table, LAMBDA row : row.key = key)
insertRow(table, key, value) == Append(table, Row(key, value))
updateRowByKey(table, key, value) ==
  [i \in 1..Len(table) |-> IF table[i].key = key THEN Row(key, value) ELSE table[i]]
deleteRowByKey(table, key) == SelectSeq(table, LAMBDA row : row.key # key)

(***************************************************************************)
(* The provider state a call works on and what a call gives back.          *)
(***************************************************************************)
St(coll, tbl) == [collection |-> coll, table |-> tbl]
Res(coll, tbl, ret) == [collection |-> coll, table |-> tbl, ret |-> ret]

(***************************************************************************)
(* set, first half: split the key, apply _.set to the cached document and  *)
(* store the result in the collection.  sameRef says that value is the     *)
(* very object the collection holds for the root key (push hands its       *)
(* fetched array back to set), so that _.set(cachedData, key, value) gives *)
(* that object a property referring to itself.                             *)
(***************************************************************************)
isNestedKey(prov, key) ==
  IF prov = "sqlite" THEN Len(Tail(key)) > 1 ELSE Len(Tail(key)) > 0

\* setCache without the else branch: the result of _.set is stored also for
\* a root-only key.
setCacheNoElse(prov, coll, key, value, sameRef) ==
  LET root == Head(key)
      cached == collGet(coll, root)
      cachedData == IF Truthy(cached) THEN cached ELSE Obj(NoProps)
      nested == isNestedKey(prov, key)
      lodashedData == lodashSet(cachedData, IF nested THEN Tail(key) ELSE <<root>>, value)
  IN [collection |-> collSet(coll, root, lodashedData), data |-> lodashedData]

setCache(prov, coll, key, value, sameRef) ==
  LET root == Head(key)
      unparsed == Tail(key)
      cached == collGet(coll, root)
      cachedData == IF Truthy(cached) THEN cached ELSE Obj(NoProps)
      nested == isNestedKey(prov, key)
      lodashedData == lodashSet(cachedData, IF nested THEN unparsed ELSE <<root>>, value)
      stored == IF sameRef /\ IsObject(value)
                  THEN WithProp(value, root, Circular)
                  ELSE value
      data == IF nested THEN lodashedData ELSE stored
  IN [collection |-> collSet(coll, root, data), data |-> data]

(***************************************************************************)
(* set, second half: probe, insert if the probe found no row, re-probe,    *)
(* update, read back.  log lists the statements in the order issued.       *)
(***************************************************************************)
\* A probe that reports no row whatever it fetched.
probeNeverFindsRow(prov, fetchQuery) == TRUE

probeFindsNoRow(prov, fetchQuery) ==
  IF prov = "sqlite" THEN Len(fetchQuery) < 0 ELSE Len(fetchQuery) <= 0

setStore(prov, table, root, data) ==
  LET fetchQuery == selectByKey(table, root)
      inserted == IF probeFindsNoRow(prov, fetchQuery)
                    THEN insertRow(table, root, stringify(data))
                    ELSE table
      updated == updateRowByKey(inserted, root, stringify(data))
      readBack == selectByKey(updated, root)
  IN [table |-> updated,
      ret |-> IF readBack = <<>> THEN Undefined ELSE readBack[1],
      log |-> <<"probe">>
              \o (IF probeFindsNoRow(prov, fetchQuery) THEN <<"insert", "reprobe">> ELSE <<>>)
              \o <<"update", "read">>]

set(prov, s, key, value, sameRef) ==
  LET c == setCache(prov, s.collection, key, value, sameRef)
      d == setStore(prov, s.table, Head(key), c.data)
  IN Res(c.collection, d.table, d.ret)

(***************************************************************************)
(* get: on a cache miss write the default through set, then read.  For a   *)
(* nested key the document read is the one fetched before the write.       *)
(***************************************************************************)
defaultOf(prov, defaultValue) ==
  IF prov = "sqlite"
    THEN IF defaultValue = Undefined THEN Str("") ELSE defaultValue
    ELSE IF Truthy(defaultValue) THEN defaultValue ELSE Str("")

get(prov, s, key, defaultValue) ==
  LET root == Head(key)
      collection == collGet(s.collection, root)
      exists == collHas(s.collection, root)
      s1 == IF exists THEN s ELSE set(prov, s, key, defaultOf(prov, defaultValue), FALSE)
  IN IF Len(key) > 1
       THEN Res(s1.collection, s1.table, lodashGet(collection, Tail(key), Null))
       ELSE Res(s1.collection, s1.table, collGet(s1.collection, root))

(***************************************************************************)
(* has: a nested key reads the root document through get.                  *)
(***************************************************************************)
\* has that reads the root document through get for a root-only key too.
hasViaGet(prov, s, key) ==
  LET g == get(prov, s, <<Head(key)>>, Undefined)
  IN Res(g.collection, g.table,
         Bool(IF Len(key) > 1
                THEN lodashHas(g.ret, Tail(key))
                ELSE collHas(s.collection, Head(key))))

has(prov, s, key) ==
  IF Len(key) > 1
    THEN LET g == get(prov, s, <<Head(key)>>, Undefined)
         IN Res(g.collection, g.table, Bool(lodashHas(g.ret, Tail(key))))
    ELSE Res(s.collection, s.table, Bool(collHas(s.collection, Head(key))))

(***************************************************************************)
(* fetch: calls get and returns nothing.                                   *)
(***************************************************************************)
fetch(prov, s, key, defaultValue) ==
  LET passed == IF prov = "sqlite"
                  THEN IF defaultValue = Undefined THEN Str("") ELSE defaultValue
                  ELSE IF Truthy(defaultValue) THEN defaultValue ELSE Undefined
      g == get(prov, s, key, passed)
  IN Res(g.collection, g.table, Undefined)

(***************************************************************************)
(* delete: the statement and the collection are given the key as passed.   *)
(* Rows and entries are named by root keys, so a dotted key matches none.  *)
(***************************************************************************)
\* delete that runs the DELETE statement and leaves the collection alone.
deleteRowOnly(s, key) ==
  IF Len(key) = 1
    THEN Res(s.collection, deleteRowByKey(s.table, Head(key)), Undefined)
    ELSE Res(s.collection, s.table, Undefined)

delete(s, key) ==
  IF Len(key) = 1
    THEN Res(collDelete(s.collection, Head(key)), deleteRowByKey(s.table, Head(key)), Undefined)
    ELSE Res(s.collection, s.table, Undefined)

(***************************************************************************)
(* init: load every row into the collection.                               *)
(***************************************************************************)
RECURSIVE loadRows(_, _)
loadRows(coll, rows) ==
  IF rows = <<>>
    THEN coll
    ELSE loadRows(collSet(coll, Head(rows).key, Head(rows).value), Tail(rows))

init(s) == Res(loadRows(s.collection, s.table), s.table, Undefined)

(***************************************************************************)
(* all: every row of the table, parsed; a later row of a key wins.         *)
(***************************************************************************)
RECURSIVE rowsToMap(_, _)
rowsToMap(data, rows) ==
  IF rows = <<>>
    THEN data
    ELSE rowsToMap(collSet(data, Head(rows).key, parse(Head(rows).value)), Tail(rows))

all(s) == Res(s.collection, s.table, rowsToMap(NoProps, s.table))

(***************************************************************************)
(* push: fetched is read once, before the loop.  In the array branch       *)
(* fetched.push(v) grows the array object itself, which is the object the  *)
(* collection holds (at the key's path, or as the root document when       *)
(* atRoot), and set is handed that same object.                            *)
(***************************************************************************)
RECURSIVE pushLoop(_, _, _, _, _, _)
pushLoop(prov, s, key, fetched, atRoot, value) ==
  IF value = <<>>
    THEN s
    ELSE
      LET v == Head(value)
          root == Head(key)
      IN IF ~Truthy(fetched)
           THEN pushLoop(prov, set(prov, s, key, Arr(<<v>>), FALSE),
                         key, fetched, atRoot, Tail(value))
           ELSE IF ~IsArray(fetched)
             THEN pushLoop(prov, set(prov, s, key, Arr(<<fetched, v>>), FALSE),
                           key, fetched, atRoot, Tail(value))
             ELSE
               LET grown == [fetched EXCEPT !.v = Append(@, v)]
                   pushed == collSet(s.collection, root,
                                     IF atRoot
                                       THEN grown
                                       ELSE lodashSet(s.collection[root], Tail(key), grown))
                   s1 == set(prov, St(pushed, s.table), key, grown, atRoot)
                   nowAtRoot == ~isNestedKey(prov, key)
               IN pushLoop(prov, s1, key,
                           IF nowAtRoot THEN s1.collection[root] ELSE grown,
                           nowAtRoot, Tail(value))

push(prov, s, key, value) ==
  LET g == get(prov, s, key, Undefined)
      l == pushLoop(prov, St(g.collection, g.table), key, g.ret, FALSE, value)
  IN get(prov, St(l.collection, l.table), key, Undefined)

(***************************************************************************)
(* Inputs of the calls.                                                    *)
(***************************************************************************)
RootKeys == {<<"a">>, <<"r">>}
NestedKeys == {<<"a", "b">>, <<"a", "c">>, <<"a", "b", "c">>}
Keys == RootKeys \cup NestedKeys
Values ==
  { Str("x"), Str(""), Num(0), Num(7),
    Arr(<<Str("x")>>), Obj([y \in {"b"} |-> Num(7)]) }
Defaults == {Undefined, Str("d")}
PushArgs == {<<Str("y")>>, <<Str("y"), Str("z")>>}

(***************************************************************************)
(* State: one provider instance over one table.  last records the call     *)
(* that was made last: its arguments, what it returned, and what the       *)
(* collection and the table held for the key's root before the call.       *)
(***************************************************************************)
VARIABLES provider, collection, table, last, ops

\* A PostgresProvider run side by side with a SqliteProvider on the same
\* calls: its collection, its table and what its last call returned.
VARIABLE twin

\* PostgresProvider at the granularity of its awaits: whether the table has
\* been created, whether an init has completed, and for each of two callers
\* the call it is in or has made last: where it stands (pc), its locals, the
\* statements it has completed (log), and what the root key held when the
\* call began, whether another writing call on its root key has been in
\* flight beside it (clean, if none) and whether any call has (alone, if
\* none).  ops counts the calls begun.
VARIABLES exists, initRan, proc

Callers == {1, 2}

Idle ==
  [pc |-> "idle", op |-> "none", key |-> <<>>, root |-> "", data |-> Undefined,
   rows |-> <<>>, log |-> <<>>, clean |-> TRUE, alone |-> TRUE,
   beforeInit |-> FALSE,
   preHas |-> FALSE, preDoc |-> Undefined, preRows |-> <<>>,
   err |-> "none", ret |-> Undefined]

asyncVars == <<exists, initRan, proc>>

vars == <<provider, collection, table, last, ops, twin, exists, initRan, proc>>

Cur == St(collection, table)

Call(op, key, args, r) ==
  [op |-> op, key |-> key, args |-> args, ret |-> r.ret,
   preHas |-> IF key = <<>> THEN FALSE ELSE collHas(collection, Head(key)),
   preDoc |-> IF key = <<>> THEN Undefined ELSE collGet(collection, Head(key)),
   preRows |-> IF key = <<>> THEN <<>> ELSE selectByKey(table, Head(key)),
   preKeys |-> DOMAIN collection]

Done(op, key, args, r) ==
  /\ ops < MaxOps
  /\ ops' = ops + 1
  /\ collection' = r.collection
  /\ table' = r.table
  /\ last' = Call(op, key, args, r)
  /\ UNCHANGED <<provider, twin>>
  /\ UNCHANGED asyncVars

Init ==
  /\ provider \in Providers
  /\ collection = NoProps
  /\ table = <<>>
  /\ last = [op |-> "new", key |-> <<>>, args |-> <<>>, ret |-> Undefined,
             preHas |-> FALSE, preDoc |-> Undefined, preRows |-> <<>>,
             preKeys |-> {}]
  /\ ops = 0
  /\ twin = Res(NoProps, <<>>, Undefined)
  /\ exists = TRUE
  /\ initRan = FALSE
  /\ proc = [p \in Callers |-> Idle]

\* A new provider instance over the same table (the process is restarted).
CallNew == Done("new", <<>>, <<>>, Res(NoProps, table, Undefined))

CallInit == Done("init", <<>>, <<>>, init(Cur))

CallSet ==
  \E key \in Keys, value \in Values :
    Done("set", key, <<value>>, set(provider, Cur, key, value, FALSE))

CallGet ==
  \E key \in Keys, defaultValue \in Defaults :
    Done("get", key, <<defaultValue>>, get(provider, Cur, key, defaultValue))

CallFetch ==
  \E key \in Keys, defaultValue \in Defaults :
    Done("fetch", key, <<defaultValue>>, fetch(provider, Cur, key, defaultValue))

CallHas ==
  \E key \in Keys :
    Done("has", key, <<>>, has(provider, Cur, key))

CallPush ==
  \E key \in NestedKeys, value \in PushArgs :
    Done("push", key, value, push(provider, Cur, key, value))

CallDelete ==
  \E key \in Keys :
    Done("delete", key, <<>>, delete(Cur, key))

CallAll == Done("all", <<>>, <<>>, all(Cur))

Next ==
  \/ CallNew
  \/ CallInit
  \/ CallSet
  \/ CallGet
  \/ CallFetch
  \/ CallHas
  \/ CallPush
  \/ CallDelete
  \/ CallAll

Spec == Init /\ [][Next]_vars

(***************************************************************************)
(* The two providers side by side: a SqliteProvider (collection, table)    *)
(* and a PostgresProvider (twin), both on empty tables, given the same     *)
(* calls.                                                                  *)
(***************************************************************************)
Both(op, key, args, r, t) ==
  /\ ops < MaxOps
  /\ ops' = ops + 1
  /\ collection' = r.collection
  /\ table' = r.table
  /\ last' = Call(op, key, args, r)
  /\ twin' = t
  /\ UNCHANGED provider
  /\ UNCHANGED asyncVars

TwinCur == St(twin.collection, twin.table)

InitPair ==
  /\ Init
  /\ provider = "sqlite"

PairInit == Both("init", <<>>, <<>>, init(Cur), init(TwinCur))

PairSet ==
  \E key \in Keys, value \in Values :
    Both("set", key, <<value>>,
         set("sqlite", Cur, key, value, FALSE),
         set("postgres", TwinCur, key, value, FALSE))

PairGet ==
  \E key \in Keys, defaultValue \in Defaults :
    Both("get", key, <<defaultValue>>,
         get("sqlite", Cur, key, defaultValue),
         get("postgres", TwinCur, key, defaultValue))

PairHas ==
  \E key \in Keys :
    Both("has", key, <<>>, has("sqlite", Cur, key), has("postgres", TwinCur, key))

PairPush ==
  \E key \in NestedKeys, value \in PushArgs :
    Both("push", key, value,
         push("sqlite", Cur, key, value),
         push("postgres", TwinCur, key, value))

PairDelete ==
  \E key \in Keys :
    Both("delete", key, <<>>, delete(Cur, key), delete(TwinCur, key))

PairAll == Both("all", <<>>, <<>>, all(Cur), all(TwinCur))

NextPair ==
  \/ PairInit
  \/ PairSet
  \/ PairGet
  \/ PairHas
  \/ PairPush
  \/ PairDelete
  \/ PairAll

SpecPair == InitPair /\ [][NextPair]_vars

(***************************************************************************)
(* PostgresProvider with several callers.  Every runQuery is awaited: the  *)
(* statement takes effect in one step, and the code after the await runs   *)
(* in a later step, so the steps of different callers interleave.  The     *)
(* code of a method before its first await runs in the step that begins    *)
(* the call.  A statement fails when the table does not exist, and may     *)
(* fail for a reason of the backend; a failed statement rejects the call.  *)
(***************************************************************************)
AsyncKeys == {<<"a">>, <<"a", "b">>, <<"r">>}
AsyncValues == {Str("x"), Arr(<<Str("x")>>)}
AsyncDefaults == {Undefined}

\* A caller begins a call when it is in none.  The callers are alike, so the
\* second makes its first call after the first has made one.
MayBegin(p) ==
  /\ proc[p].pc \in {"idle", "done", "failed"}
  /\ \A q \in Callers : q < p => proc[q].pc # "idle"
  /\ ops < MaxCalls
  /\ ops' = ops + 1

InFlight(q) == proc[q].pc \notin {"idle", "done", "failed"}
Writes(q) == proc[q].op \in {"set", "get", "delete"}
Overlapping(p, root) ==
  {q \in Callers \ {p} : InFlight(q) /\ Writes(q) /\ proc[q].root = root}

\* Caller p begins a call beside the calls in flight: none of them is alone
\* any more, and a writing call on a root key that another writing call in
\* flight has too makes both unclean.
Begin(p, op, key, data, pc) ==
  LET root == IF key = <<>> THEN "" ELSE Head(key)
      writes == op \in {"set", "get", "delete"}
      beside == {q \in Callers \ {p} : InFlight(q)}
      others == IF writes THEN Overlapping(p, root) ELSE {}
  IN proc' =
       [q \in Callers |->
          IF q = p
            THEN [Idle EXCEPT !.pc = pc, !.op = op, !.key = key, !.root = root,
                              !.data = data, !.clean = (others = {}),
                              !.alone = (beside = {}),
                              !.beforeInit = ~initRan,
                              !.preHas = collHas(collection, root),
                              !.preDoc = collGet(collection, root),
                              !.preRows = selectByKey(table, root)]
            ELSE IF q \in beside
              THEN [proc[q] EXCEPT !.clean = (@ /\ q \notin others),
                                   !.alone = FALSE]
              ELSE proc[q]]

\* The awaited statement of caller p completed: record it and go on at pc.
Completed(p, statement, pc, rows) ==
  proc' = [proc EXCEPT ![p].pc = pc, ![p].rows = rows,
                       ![p].log = Append(@, statement)]

\* A rejection that also puts back the document the collection held.
FailedRollsBack(p) ==
  /\ proc' = [proc EXCEPT ![p].pc = "failed",
                          ![p].err = IF exists THEN "backend" ELSE "no table"]
  /\ collection' = IF proc[p].preHas
                     THEN collSet(collection, proc[p].root, proc[p].preDoc)
                     ELSE collDelete(collection, proc[p].root)
  /\ UNCHANGED <<table, exists, initRan>>

\* The awaited statement of caller p failed: the call is rejected where it
\* stands.
Failed(p) ==
  /\ proc' = [proc EXCEPT ![p].pc = "failed",
                          ![p].err = IF exists THEN "backend" ELSE "no table"]
  /\ UNCHANGED <<collection, table, exists, initRan>>

StartSet(p) ==
  /\ MayBegin(p)
  /\ \E key \in AsyncKeys, value \in AsyncValues :
       LET c == setCache("postgres", collection, key, value, FALSE)
       IN /\ collection' = c.collection
          /\ Begin(p, "set", key, c.data, "probe")
  /\ UNCHANGED <<table, exists, initRan>>

\* get: a hit returns at once; a miss runs set with the default.
StartGet(p) ==
  /\ MayBegin(p)
  /\ \E key \in AsyncKeys, defaultValue \in AsyncDefaults :
       IF collHas(collection, Head(key))
         THEN /\ proc' = [proc EXCEPT ![p] =
                  [Idle EXCEPT !.pc = "done", !.op = "read", !.key = key,
                               !.root = Head(key),
                               !.ret = get("postgres", Cur, key, defaultValue).ret]]
              /\ UNCHANGED collection
         ELSE LET c == setCache("postgres", collection, key,
                                defaultOf("postgres", defaultValue), FALSE)
              IN /\ collection' = c.collection
                 /\ Begin(p, "get", key, c.data, "probe")
  /\ UNCHANGED <<table, exists, initRan>>

Probe(p) ==
  /\ proc[p].pc = "probe"
  /\ \/ /\ exists
        /\ LET fetchQuery == selectByKey(table, proc[p].root)
           IN Completed(p, "probe",
                        IF probeFindsNoRow("postgres", fetchQuery) THEN "insert" ELSE "update",
                        fetchQuery)
        /\ UNCHANGED <<collection, table, exists, initRan>>
     \/ Failed(p)

Insert(p) ==
  /\ proc[p].pc = "insert"
  /\ \/ /\ exists
        /\ table' = insertRow(table, proc[p].root, stringify(proc[p].data))
        /\ Completed(p, "insert", "reprobe", proc[p].rows)
        /\ UNCHANGED <<collection, exists, initRan>>
     \/ Failed(p)

Reprobe(p) ==
  /\ proc[p].pc = "reprobe"
  /\ \/ /\ exists
        /\ Completed(p, "reprobe", "update", selectByKey(table, proc[p].root))
        /\ UNCHANGED <<collection, table, exists, initRan>>
     \/ Failed(p)

Update(p) ==
  /\ proc[p].pc = "update"
  /\ \/ /\ exists
        /\ table' = updateRowByKey(table, proc[p].root, stringify(proc[p].data))
        /\ Completed(p, "update", "read", proc[p].rows)
        /\ UNCHANGED <<collection, exists, initRan>>
     \/ Failed(p)

\* The confirming read: set returns its first row; get goes on after set.
Read(p) ==
  /\ proc[p].pc = "read"
  /\ \/ /\ exists
        /\ LET readBack == selectByKey(table, proc[p].root)
           IN proc' = [proc EXCEPT
                ![p].pc = IF proc[p].op = "get" THEN "resume" ELSE "done",
                ![p].log = Append(@, "read"),
                ![p].ret = IF readBack = <<>> THEN Undefined ELSE readBack[1]]
        /\ UNCHANGED <<collection, table, exists, initRan>>
     \/ Failed(p)

\* get after its set: a nested key is resolved against the document fetched
\* before the set (none, on a miss), a root-only key is read from the
\* collection as it is now.
Resume(p) ==
  /\ proc[p].pc = "resume"
  /\ proc' = [proc EXCEPT
       ![p].pc = "done",
       ![p].ret = IF Len(proc[p].key) > 1
                    THEN lodashGet(Undefined, Tail(proc[p].key), Null)
                    ELSE collGet(collection, proc[p].root)]
  /\ UNCHANGED <<collection, table, exists, initRan>>

StartDelete(p) ==
  /\ MayBegin(p)
  /\ \E key \in RootKeys : Begin(p, "delete", key, Undefined, "delete")
  /\ UNCHANGED <<collection, table, exists, initRan>>

DeleteRows(p) ==
  /\ proc[p].pc = "delete"
  /\ \/ /\ exists
        /\ table' = deleteRowByKey(table, proc[p].root)
        /\ Completed(p, "delete", "forget", proc[p].rows)
        /\ UNCHANGED <<collection, exists, initRan>>
     \/ Failed(p)

Forget(p) ==
  /\ proc[p].pc = "forget"
  /\ collection' = collDelete(collection, proc[p].root)
  /\ proc' = [proc EXCEPT ![p].pc = "done"]
  /\ UNCHANGED <<table, exists, initRan>>

StartInit(p) ==
  /\ MayBegin(p)
  /\ Begin(p, "init", <<>>, Undefined, "create")
  /\ UNCHANGED <<collection, table, exists, initRan>>

\* CREATE TABLE IF NOT EXISTS: the one statement that needs no table.
Create(p) ==
  /\ proc[p].pc = "create"
  /\ \/ /\ exists' = TRUE
        /\ Completed(p, "create", "select", proc[p].rows)
        /\ UNCHANGED <<collection, table, initRan>>
     \/ /\ proc' = [proc EXCEPT ![p].pc = "failed", ![p].err = "backend"]
        /\ UNCHANGED <<collection, table, exists, initRan>>

SelectAll(p) ==
  /\ proc[p].pc = "select"
  /\ \/ /\ exists
        /\ Completed(p, "select", "load", table)
        /\ UNCHANGED <<collection, table, exists, initRan>>
     \/ Failed(p)

Load(p) ==
  /\ proc[p].pc = "load"
  /\ collection' = loadRows(collection, proc[p].rows)
  /\ initRan' = TRUE
  /\ proc' = [proc EXCEPT ![p].pc = "done"]
  /\ UNCHANGED <<table, exists>>

InitAsync ==
  /\ provider = "postgres"
  /\ collection = NoProps
  /\ table = <<>>
  /\ last = [op |-> "new", key |-> <<>>, args |-> <<>>, ret |-> Undefined,
             preHas |-> FALSE, preDoc |-> Undefined, preRows |-> <<>>,
             preKeys |-> {}]
  /\ ops = 0
  /\ twin = Res(NoProps, <<>>, Undefined)
  /\ exists \in BOOLEAN
  /\ initRan = FALSE
  /\ proc = [p \in Callers |-> Idle]

\* What a step of a call leaves alone.
Began == UNCHANGED <<provider, last, twin>>
Went == UNCHANGED <<provider, last, twin, ops>>

NextAsync ==
  \E p \in Callers :
    \/ StartSet(p) /\ Began
    \/ StartGet(p) /\ Began
    \/ StartDelete(p) /\ Began
    \/ StartInit(p) /\ Began
    \/ Probe(p) /\ Went
    \/ Insert(p) /\ Went
    \/ Reprobe(p) /\ Went
    \/ Update(p) /\ Went
    \/ Read(p) /\ Went
    \/ Resume(p) /\ Went
    \/ DeleteRows(p) /\ Went
    \/ Forget(p) /\ Went
    \/ Create(p) /\ Went
    \/ SelectAll(p) /\ Went
    \/ Load(p) /\ Went

SpecAsync == InitAsync /\ [][NextAsync]_vars

(***************************************************************************)
(* Properties.                                                             *)
(***************************************************************************)
IsTrue(r) == r.ret = Bool(TRUE)
After(r) == St(r.collection, r.table)
LastRoot == Head(last.key)
LastPath == Tail(last.key)

\* The path of the last call's key was unset before the call: the root key
\* was absent, or held a mapping without that property.
PathWasUnset ==
  \/ ~last.preHas
  \/ last.preDoc.k = "object" /\ ~lodashHas(last.preDoc, LastPath)

\* The path of the last call's key held this value before the call.
PreValue == lodashGet(last.preDoc, LastPath, Undefined)
PathWasSet == last.preHas /\ lodashHas(last.preDoc, LastPath)

\* C1: whenever set, push or delete has returned, cache and store agree for
\* the affected root key: after set/push the table holds exactly one row for
\* it and the parsed value of the row is the cached document; after delete
\* of a root key the table holds no row and the cache no entry for it.
C1_WriteThrough ==
  /\ last.op \in {"set", "push"} =>
       LET rows == selectByKey(table, LastRoot)
       IN /\ Len(rows) = 1
          /\ collHas(collection, LastRoot)
          /\ parse(rows[1].value) = collection[LastRoot]
  /\ (last.op = "delete" /\ Len(last.key) = 1) =>
       /\ selectByKey(table, LastRoot) = <<>>
       /\ ~collHas(collection, LastRoot)

\* C2: after init() on a new instance, the cache holds exactly one entry per
\* row of the table and each entry is the parsed value of its row.
C2_InitLoadsParsedRows ==
  (last.op = "init" /\ last.preKeys = {}) =>
    /\ DOMAIN collection = {table[i].key : i \in 1..Len(table)}
    /\ \A i \in 1..Len(table) : collection[table[i].key] = parse(table[i].value)

\* C3: set(k, v) with a key k without a dot, followed by get(k), returns v.
C3_SetGetRoundTrip ==
  (last.op = "set" /\ Len(last.key) = 1) =>
    get(provider, Cur, last.key, Undefined).ret = last.args[1]

C3_Witness ==
  /\ last.op = "set"
  /\ Len(last.key) = 1
  /\ last.preHas
  /\ last.preDoc.k = "object"
  /\ last.args[1] = Str("x")
  /\ get(provider, Cur, last.key, Undefined).ret = Str("x")

\* C4: set("a.b", v) followed by get("a.b") returns v, and get("a") returns
\* a document with property b of value v; the other properties of a mapping
\* document are kept.
C4_NestedSetGet ==
  (last.op = "set" /\ Len(last.key) = 2) =>
    LET doc == get(provider, Cur, <<LastRoot>>, Undefined).ret
        b == last.key[2]
    IN /\ get(provider, Cur, last.key, Undefined).ret = last.args[1]
       /\ HasOwn(doc, b)
       /\ doc.p[b] = last.args[1]
       /\ (last.preHas /\ last.preDoc.k = "object") =>
            \A y \in (DOMAIN last.preDoc.p) \ {b} :
              HasOwn(doc, y) /\ doc.p[y] = last.preDoc.p[y]

\* C5: has(k) is true right after set(k, v), for root-only and nested k.
C5_HasAfterSet ==
  last.op = "set" => IsTrue(has(provider, Cur, last.key))

\* C6: push("a.items", x) on an unset path returns [x] and makes get return
\* [x]; a second push of y then returns [x, y] and makes get return [x, y].
C6_PushOnUnsetPath ==
  (last.op = "push" /\ Len(last.key) = 2 /\ Len(last.args) = 1 /\ PathWasUnset) =>
    LET x == last.args[1]
        y == Str("z")
        second == push(provider, Cur, last.key, <<y>>)
    IN /\ last.ret = Arr(<<x>>)
       /\ get(provider, Cur, last.key, Undefined).ret = Arr(<<x>>)
       /\ second.ret = Arr(<<x, y>>)
       /\ get(provider, After(second), last.key, Undefined).ret = Arr(<<x, y>>)

\* C7: push("a.single", y) on a path holding a non-array scalar x (a string,
\* number or boolean, empty and zero included) leaves [x, y] at the path.
C7_PushCoercesScalar ==
  (/\ last.op = "push"
   /\ Len(last.key) = 2
   /\ Len(last.args) = 1
   /\ PathWasSet
   /\ PreValue.k \in {"string", "number", "boolean"}) =>
    get(provider, Cur, last.key, Undefined).ret = Arr(<<PreValue, last.args[1]>>)

\* C8: push(key, v1, ..., vn) with n >= 2 loses no value: the path ends as
\* [v1..vn] if it was unset, [x, v1..vn] if it held a non-array scalar x,
\* old ++ [v1..vn] if it held an array.
C8_PushKeepsAllValues ==
  (last.op = "push" /\ Len(last.args) >= 2) =>
    LET final == get(provider, Cur, last.key, Undefined).ret
    IN /\ PathWasUnset => final = Arr(last.args)
       /\ (PathWasSet /\ PreValue.k \in {"string", "number", "boolean"}) =>
            final = Arr(<<PreValue>> \o last.args)
       /\ (PathWasSet /\ IsArray(PreValue)) =>
            IsArray(final) /\ final.v = PreValue.v \o last.args

\* C9: delete(k) of a root key makes has(k) false and removes k from the
\* mapping all() returns.
C9_DeleteRemoves ==
  (last.op = "delete" /\ Len(last.key) = 1) =>
    /\ ~IsTrue(has(provider, Cur, last.key))
    /\ LastRoot \notin DOMAIN all(Cur).ret

C9_Witness ==
  /\ last.op = "delete"
  /\ Len(last.key) = 1
  /\ last.preHas
  /\ last.preRows # <<>>
  /\ ~IsTrue(has(provider, Cur, last.key))
  /\ DOMAIN all(Cur).ret # {}
  /\ LastRoot \notin DOMAIN all(Cur).ret

\* C10: a get whose root is absent from the cache returns the default it
\* wrote (the given default, or "" without one), for a root-only and for a
\* nested key, and a repeated get(key) returns the same value.
C10_GetMissReturnsDefault ==
  (last.op = "get" /\ ~last.preHas) =>
    /\ last.ret = (IF last.args[1] = Undefined THEN Str("") ELSE last.args[1])
    /\ get(provider, Cur, last.key, Undefined).ret = last.ret

\* What the collection and the table held for the root key of the last call
\* before that call.
PreState ==
  St(IF last.preHas THEN collSet(NoProps, LastRoot, last.preDoc) ELSE NoProps,
     last.preRows)

\* The default a get of the last call's arguments writes on a miss, and the
\* document that holds it at the key's path.
LastDefault == IF last.args[1] = Undefined THEN Str("") ELSE last.args[1]
LastDefaultDoc ==
  IF Len(last.key) = 1
    THEN LastDefault
    ELSE lodashSet(Obj(NoProps), LastPath, LastDefault)

\* C11: when a get whose root key was absent from the cache returns, the
\* table holds a row for the root key whose parsed value is the default
\* document, and the cache holds the same document.
C11_GetMissPersistsDefault ==
  (last.op = "get" /\ ~last.preHas) =>
    LET rows == selectByKey(table, LastRoot)
    IN /\ rows # <<>>
       /\ parse(rows[1].value) = LastDefaultDoc
       /\ collHas(collection, LastRoot)
       /\ collection[LastRoot] = LastDefaultDoc

\* C12: fetch(key, d) returns what get(key, d) returns in the same state and
\* has the same effect on the cache and on the table.
C12_FetchIsGet ==
  last.op = "fetch" =>
    LET g == get(provider, PreState, last.key, last.args[1])
    IN /\ last.ret = g.ret
       /\ collGet(collection, LastRoot) = collGet(g.collection, LastRoot)
       /\ selectByKey(table, LastRoot) = g.table

\* C13: set returns the row read back after the update: its key is the root
\* key, its value the serialization of the new document; never undefined.
C13_SetReturnsRow ==
  last.op = "set" =>
    /\ last.ret # Undefined
    /\ last.ret.key = LastRoot
    /\ last.ret.value = stringify(collection[LastRoot])

\* C16: every set issues its statements in the order probe, insert and
\* re-probe if the probe returned no row, update, confirming read: the INSERT
\* is issued exactly when the probe found no row of the root key, the UPDATE
\* and the confirming read always.
C16_SetStatementOrder ==
  last.op = "set" =>
    setStore(provider, last.preRows, LastRoot, collection[LastRoot]).log =
      (IF last.preRows = <<>>
         THEN <<"probe", "insert", "reprobe", "update", "read">>
         ELSE <<"probe", "update", "read">>)

C14_SameContract ==
  /\ collection = twin.collection
  /\ table = twin.table
  /\ last.op \in {"get", "has", "push", "all"} => last.ret = twin.ret

\* What the steps of caller p are about.
RootRows(t, p) == selectByKey(t, proc[p].root)
Rejected(p) == InFlight(p) /\ proc'[p].pc = "failed"
Returned(p) == InFlight(p) /\ proc'[p].pc = "done"
Inserted(p) == proc[p].pc = "insert" /\ proc'[p].pc = "reprobe"
Issued(p, statement) == \E i \in DOMAIN proc[p].log : proc[p].log[i] = statement

\* C15: a set, or a get that misses, begun before any init has run is not
\* rejected for want of the table.
C15_NoErrorBeforeInit ==
  \A p \in Callers :
    (proc[p].op \in {"set", "get"} /\ proc[p].beforeInit) =>
      ~(proc[p].pc = "failed" /\ proc[p].err = "no table")

\* C18: the INSERT of a set is issued by a caller whose probe returned no
\* row, it adds a row whatever rows the root key has by then, and nothing
\* else adds a row; so two sets in flight on one root key whose probes both
\* return no row leave two rows for it.
C18_RaceInsertsTwice ==
  [][ /\ \A p \in Callers :
           Inserted(p) =>
             /\ proc[p].rows = <<>>
             /\ Len(RootRows(table', p)) = Len(RootRows(table, p)) + 1
      /\ \A k \in Roots :
           Len(selectByKey(table', k)) > Len(selectByKey(table, k)) =>
             \E p \in Callers : Inserted(p) /\ proc[p].root = k ]_vars

C18_Witness ==
  \E k \in Roots :
    /\ Len(selectByKey(table, k)) = 2
    /\ \A p \in Callers :
         /\ proc[p].op = "set"
         /\ proc[p].root = k
         /\ proc[p].preRows = <<>>
         /\ Issued(p, "insert")

\* The cache and the table agree on a root key: the key has a row, and every
\* row of it holds the serialization of the document the cache holds.
Agree(coll, t, root) ==
  LET rows == selectByKey(t, root)
  IN /\ collHas(coll, root)
     /\ rows # <<>>
     /\ \A i \in DOMAIN rows : parse(rows[i].value) = coll[root]

\* C19: when a set returns that had no other writing call on its root key in
\* flight beside it, the cache and the table agree on the root key.
C19_CleanSetAgrees ==
  [][\A p \in Callers :
       (Returned(p) /\ proc[p].op = "set" /\ proc[p].clean) =>
         Agree(collection', table', proc[p].root)]_vars

\* The rows of its root key a set that ran alone has left by the statements
\* it completed.
RowsWritten(p) ==
  LET text == stringify(proc[p].data)
      held == IF Issued(p, "insert")
                THEN insertRow(proc[p].preRows, proc[p].root, text)
                ELSE proc[p].preRows
  IN IF Issued(p, "update")
       THEN updateRowByKey(held, proc[p].root, text)
       ELSE held

\* C20 as stated: a set that ran alone and is rejected leaves the cache
\* holding the new document and the table holding the rows it held before.
C20_FailedSetKeepsStore ==
  [][\A p \in Callers :
       (Rejected(p) /\ proc[p].op = "set" /\ proc[p].alone) =>
         /\ collection'[proc[p].root] = proc[p].data
         /\ RootRows(table', p) = proc[p].preRows]_vars

\* C20: the step that rejects a call changes neither the cache nor the
\* table, and the call issues no statement after it.  A rejected set or
\* default-fill that ran alone leaves the cache holding the new document and
\* the table holding what the statements completed before the failure wrote;
\* a rejected delete that ran alone leaves the cache entry and the rows.
C20_FailureKeepsPartialEffects ==
  [][\A p \in Callers :
       /\ Rejected(p) =>
            /\ collection' = collection
            /\ table' = table
            /\ (proc[p].alone /\ proc[p].op \in {"set", "get"}) =>
                 /\ collection'[proc[p].root] = proc[p].data
                 /\ RootRows(table', p) = RowsWritten(p)
            /\ (proc[p].alone /\ proc[p].op = "delete") =>
                 /\ collHas(collection', proc[p].root) = proc[p].preHas
                 /\ collGet(collection', proc[p].root) = proc[p].preDoc
                 /\ RootRows(table', p) = proc[p].preRows
       /\ (proc[p].pc = "failed" /\ proc'[p] # proc[p]) =>
            /\ ops' = ops + 1
            /\ proc'[p].log = <<>>]_vars

C20_Witness ==
  \E p \in Callers :
    /\ proc[p].pc = "failed"
    /\ proc[p].op = "set"
    /\ proc[p].alone
    /\ Issued(p, "insert")
    /\ collection[proc[p].root] = proc[p].data
    /\ RootRows(table, p) # proc[p].preRows
    /\ RootRows(table, p) = RowsWritten(p)

====
